---- MODULE Spec2Model ----
(***************************************************************************)
(* sns-mobile: the Interface object of lib/interface.js (latest revision,  *)
(* src/unnamed/part_002 lines 1-819) over an SNS backend.                  *)
(*                                                                         *)
(* One action is one JavaScript turn: a call of a public method, or the    *)
(* delivery of one backend callback, run to completion together with every *)
(* synchronous call it makes (async.each, async.whilst, emit, the caller's *)
(* callback).  Everything observable is appended to `trace` in the order   *)
(* in which it happens.                                                    *)
(*                                                                         *)
(* JavaScript values are strings: "undefined", "null", "" (the empty       *)
(* string), page tokens "2", "3", ..., errors "ListError@n" and so on.     *)
(***************************************************************************)
EXTENDS Integers, Sequences, FiniteSets, TLC

(* ------------------------------ bounds -------------------------------- *)

\* pages the backend's collection may hold
MaxPages == 3
\* items the backend delivers in one run, over all its listing responses
MaxItems == 2
\* listing requests of one invocation that the backend answers: enough to walk
\* the whole collection once, or to come back to page 1 after an empty-string token
MaxRequests == MaxPages
\* invocation slots on the one instance
NumCalls == 2

Calls == 1..NumCalls

(* --------------------------- JavaScript values ------------------------ *)

undefined == "undefined"
null == "null"

\* `typeof v !== 'undefined' && v !== null`, the whilst test of getUsers and broadcastMessage
isPresent(v) == v # undefined /\ v # null

\* ToBoolean of a string-or-absent value: `if (nextToken)`, `!!nextToken`
truthy(v) == v \notin {undefined, null, ""}

isError(e) == truthy(e)

(* ------------------------------ constants ----------------------------- *)

SUPPORTED_PLATFORMS == {"ANDROID", "IOS", "KINDLE_FIRE", "android", "ios"}

BROADCAST_START == "broadcastStart"
BROADCAST_END == "broadcastEnd"
SENT_MESSAGE == "messageSent"
FAILED_SEND == "sendFailed"
DELETED_USER == "userDeleted"
ADDED_USER == "userAdded"
ADD_USER_FAILED == "addUserFailed"
ATTRIBUTES_UPDATED == "attributesUpdated"
ATTRIBUTES_UPDATE_FAILED == "attributesUpdateFailed"
PUBLISH_FAILED == "publishFailed"
PUBLISHED_MESSAGE == "publishedMessage"
TOPIC_CREATED == "topicCreated"
CREATE_TOPIC_FAILED == "createTopicFailed"
TOPIC_DELETED == "topicDeleted"
DELETE_TOPIC_FAILED == "deleteTopicFailed"
SUBSCRIBED == "subscribed"
SUBSCRIBE_FAILED == "subscribeFailed"
UNSUBSCRIBED == "unsubscribed"
UNSUBSCRIBE_FAILED == "unsubscribeFailed"

deviceSupported(p) == p \in SUPPORTED_PLATFORMS

(* ------------------------------ messages ------------------------------ *)
(* A message argument is abstracted to what the code looks at: its typeof, *)
(* the truthy keys it carries, and whether JSON.stringify throws on it     *)
(* (a cyclic object).                                                      *)

Msg(type, keys, cyclic) == [type |-> type, keys |-> keys, cyclic |-> cyclic]

MsgNull == Msg("null", {}, FALSE)

Messages ==
  { Msg("string", {}, FALSE),                \* 'Hello'
    Msg("object", {"data"}, FALSE),          \* {data: ...}
    Msg("object", {"GCM", "APNS"}, FALSE),   \* already in SNS format
    Msg("object", {"GCM", "APNS"}, TRUE),    \* SNS format, cyclic
    Msg("object", {"data"}, TRUE),           \* plain, cyclic
    Msg("number", {}, FALSE) }               \* neither String nor Object

\* JSON.stringify(v): throws on a cyclic object, else yields the text of v
JSONstringify(v) == [threw |-> v.cyclic, text |-> v]

convertToGcmFormat(p, message) ==
  LET key == IF p = "ANDROID" THEN "GCM" ELSE "ADM"
      container == Msg("object", {key}, FALSE)
  IN  IF message.type = "string"
        THEN [err |-> null, message |-> container]
      ELSE IF message.type = "object"
        THEN IF message.keys \cap {"GCM", "ADM", "default"} # {}
               THEN [err |-> null, message |-> message]
             ELSE IF JSONstringify(message).threw
               THEN [err |-> "TypeError", message |-> MsgNull]
             ELSE [err |-> null, message |-> container]
      ELSE [err |-> "Unable to convert message to ADM/GCM format", message |-> MsgNull]

convertToApnsFormat(sbx, message) ==
  LET APNS == IF sbx THEN "APNS_SANDBOX" ELSE "APNS"
      messageContainer == Msg("object", {APNS}, FALSE)
  IN  IF message.type = "string"
        THEN [err |-> null, message |-> messageContainer]
      ELSE IF message.type = "object"
        THEN IF message.keys \cap {"APNS_SANDBOX", "APNS"} # {}
               THEN [err |-> null, message |-> message]
             ELSE IF JSONstringify(message).threw
               THEN [err |-> "TypeError", message |-> MsgNull]
             ELSE [err |-> null, message |-> messageContainer]
      ELSE [err |-> "Unable to convert message to APNS format", message |-> MsgNull]

(* ------------------------------- state -------------------------------- *)

VARIABLES
  platform,                \* this.platform
  sandbox,                 \* this.sandbox
  platformApplicationArn,  \* this.platformApplicationArn
  pages,      \* the backend's collection, as far as it has been revealed
  op,         \* per invocation: the public method running ("idle" if none)
  args,       \* per invocation: its arguments
  pc,         \* per invocation: where it stands
  listing,    \* per invocation: NextToken parameter of the listing request in flight, or "idle"
  nextToken,  \* per invocation: the closure variable nextToken
  acc,        \* per invocation: the closure accumulator (users, applications, topics, subscriptions)
  pending,    \* per invocation: targets of the publish requests in flight
  trace       \* everything observable, in order of occurrence

vars == <<platform, sandbox, platformApplicationArn, pages, op, args, pc, listing,
          nextToken, acc, pending, trace>>

inst == <<platform, sandbox, platformApplicationArn>>

\* the invocation slot the single-invocation specifications use
Solo == CHOOSE c \in Calls : \A d \in Calls : c <= d

(* --------------------------- trace entries ---------------------------- *)

\* sns.<api>(params, cb) is called
Req(c, api, params) == [t |-> "req", c |-> c, name |-> api, params |-> params]
\* the backend delivers cb(err, data) for a request of api
Ret(c, api, target, err, data) ==
  [t |-> "ret", c |-> c, name |-> api, target |-> target, err |-> err, data |-> data]
\* self.emit(name, a, b)
Emit(c, name, a, b) == [t |-> "emit", c |-> c, name |-> name, a |-> a, b |-> b]
\* self.emit(name, a, b, d)
Emit3(c, name, a, b, d) == [t |-> "emit", c |-> c, name |-> name, a |-> a, b |-> b, d |-> d]
\* the second argument of a callback: null, undefined (not given) or an array
NullRes == [is |-> "null", items |-> <<>>]
UndefRes == [is |-> "undefined", items |-> <<>>]
ArrayRes(s) == [is |-> "array", items |-> s]
\* ... or a string, or an object
StringRes(v) == [is |-> "string", str |-> v]
ObjectRes(o) == [is |-> "object", obj |-> o]

\* the caller's callback is invoked with (err, res)
Cb(c, err, res) == [t |-> "cb", c |-> c, name |-> "callback", err |-> err, res |-> res]

(* ------------------------------ backend ------------------------------- *)
(* The collection is a forward-only chain of pages: page k carries the     *)
(* token of page k+1, or no usable token (undefined, null or the empty     *)
(* string) when it is the last.  A request without NextToken is answered   *)
(* with page 1.  Pages are revealed when first requested and stay fixed.   *)

Token(k) == ToString(k)

PageOf(tok) == IF tok = undefined THEN 1 ELSE CHOOSE k \in 1..(MaxPages + 1) : Token(k) = tok

Items(k, n) == [i \in 1..n |-> <<k, i>>]

ListApis ==
  {"listEndpointsByPlatformApplication", "listPlatformApplications", "listTopics",
   "listSubscriptions", "listSubscriptionsByTopic"}

\* the items delivered so far, over all listing responses
Delivered ==
  LET n[i \in 0..Len(trace)] ==
        IF i = 0 THEN 0
        ELSE n[i - 1] + (IF trace[i].t = "ret" /\ trace[i].name \in ListApis /\ ~isError(trace[i].err)
                           THEN Len(trace[i].data.Items) ELSE 0)
  IN  n[Len(trace)]

NewPages(k) ==
  { [Items |-> Items(k, n), NextToken |-> tok] :
      n \in 0..(MaxItems - Delivered),
      tok \in (IF k < MaxPages THEN {Token(k + 1)} ELSE {}) \cup {undefined, null, ""} }

\* the pages the backend may answer a listing request with
Served(tokParam) ==
  IF PageOf(tokParam) <= Len(pages)
    THEN {p \in {pages[PageOf(tokParam)]} : Delivered + Len(p.Items) <= MaxItems}
  ELSE NewPages(PageOf(tokParam))

Reveal(tokParam, page) ==
  IF PageOf(tokParam) <= Len(pages) THEN pages ELSE Append(pages, page)

Requests(c) == {i \in 1..Len(trace) : trace[i].t = "req" /\ trace[i].c = c}

ListRequests(c) == {i \in Requests(c) : trace[i].name \in ListApis}

\* the backend answers the listing request of c that is in flight
CanAnswerListing(c) ==
  /\ listing[c] # "idle"
  /\ Cardinality(ListRequests(c)) <= MaxRequests

\* the data argument of a backend callback: null on failure, an object on success
NullData == [isNull |-> TRUE, MessageId |-> undefined]
PublishData(id) == [isNull |-> FALSE, MessageId |-> id]

(* ----------------------------- Interface ------------------------------ *)

getPlatformApplicationArn == platformApplicationArn

\* (variant: the listing request names a fixed application)
_getUsers_fixedArn(c, tok) ==
  Req(c, "listEndpointsByPlatformApplication",
      [PlatformApplicationArn |-> "arn:app",
       NextToken |-> IF truthy(tok) THEN tok ELSE undefined])

\* Interface.prototype._getUsers: the request it makes
_getUsers(c, tok) ==
  Req(c, "listEndpointsByPlatformApplication",
      [PlatformApplicationArn |-> getPlatformApplicationArn,
       NextToken |-> IF truthy(tok) THEN tok ELSE undefined])

\* Interface.prototype.sendMessage up to the publish call: it throws, or the
\* try block throws and the callback gets the exception, or publish is called
sendMessage(c, endpointArn, m) ==
  IF platform \in {"ANDROID", "KINDLE_FIRE"} \/ platform = "IOS"
    THEN LET conv == IF platform = "IOS" THEN convertToApnsFormat(sandbox, m)
                     ELSE convertToGcmFormat(platform, m)
             json == JSONstringify(conv.message)
         IN  IF json.threw
               THEN [kind |-> "caught", err |-> "TypeError", res |-> null]
             ELSE [kind |-> "publish",
                   req |-> Req(c, "publish",
                               [Message |-> json.text, TargetArn |-> endpointArn,
                                MessageStructure |-> "json"])]
  ELSE [kind |-> "throw", err |-> "Unsupported platform detected"]

\* (variant: the failure event is emitted without the error)
publishEvent_dropErr(c, endpointArn, err, res) ==
  IF isError(err) THEN Emit(c, FAILED_SEND, endpointArn, undefined)
  ELSE Emit(c, SENT_MESSAGE, endpointArn, res.MessageId)

\* the publish callback of sendMessage: the event it emits and what it passes on
publishEvent(c, endpointArn, err, res) ==
  IF isError(err) THEN Emit(c, FAILED_SEND, endpointArn, err)
  ELSE Emit(c, SENT_MESSAGE, endpointArn, res.MessageId)

publishResult(err, res) ==
  [err |-> err, res |-> IF ~res.isNull /\ truthy(res.MessageId) THEN res.MessageId ELSE null]

(* --------------------------- broadcastMessage ------------------------- *)

\* (variant: the iterator hands the send's error on, `cb(err)`)
iteratorCallback_passErr(err) == err

\* the iterator's callback in _broadcastMessage, `function() { cb(); }`:
\* what it hands to async.each for a send that ended with err
iteratorCallback(err) == undefined

\* (variant: the final callback runs on the first iterator callback)
eachDone_first(left, err) == TRUE

\* async.each: the final callback runs when the last iterator has called back
\* (left: the sends still in flight), or at once on an error
eachDone(left, err) == left = {} \/ isError(err)

\* the test of async.whilst in broadcastMessage and getUsers
whilstTest(tok) == isPresent(tok)

\* Interface.prototype._broadcastMessage, the synchronous part of async.each:
\* sendMessage for every endpoint in turn
_broadcastMessage(c, endpoints, message, tr) ==
  LET sends == [i \in 1..Len(endpoints) |-> sendMessage(c, endpoints[i], message)]
  IN  IF Len(endpoints) = 0
        THEN [threw |-> FALSE, trace |-> tr, pending |-> {}]
      ELSE IF sends[1].kind = "throw"
        THEN [threw |-> TRUE, trace |-> tr, pending |-> {}]
      ELSE IF sends[1].kind = "caught"
        THEN [threw |-> FALSE, trace |-> tr, pending |-> {}]
      ELSE [threw |-> FALSE,
            trace |-> tr \o [i \in 1..Len(endpoints) |-> sends[i].req],
            pending |-> {endpoints[i] : i \in 1..Len(endpoints)}]

\* (variant: the loop's callback returns the error before emitting broadcastEnd)
Whilst_noEndOnError(c, tok, err, tr) ==
  IF isError(err) \/ ~whilstTest(tok)
    THEN /\ trace' = tr \o (IF isError(err) THEN <<>> ELSE <<Emit(c, BROADCAST_END, undefined, undefined)>>)
                        \o <<Cb(c, err, UndefRes)>>
         /\ pc' = [pc EXCEPT ![c] = "done"]
         /\ listing' = [listing EXCEPT ![c] = "idle"]
  ELSE /\ trace' = Append(tr, _getUsers(c, tok))
       /\ pc' = [pc EXCEPT ![c] = "listMore"]
       /\ listing' = [listing EXCEPT ![c] = _getUsers(c, tok).params.NextToken]

\* (variant: broadcastEnd is emitted whenever a page has settled)
Whilst_endEveryPage(c, tok, err, tr) ==
  IF isError(err) \/ ~whilstTest(tok)
    THEN /\ trace' = tr \o <<Emit(c, BROADCAST_END, undefined, undefined), Cb(c, err, UndefRes)>>
         /\ pc' = [pc EXCEPT ![c] = "done"]
         /\ listing' = [listing EXCEPT ![c] = "idle"]
  ELSE /\ trace' = tr \o <<Emit(c, BROADCAST_END, undefined, undefined), _getUsers(c, tok)>>
       /\ pc' = [pc EXCEPT ![c] = "listMore"]
       /\ listing' = [listing EXCEPT ![c] = _getUsers(c, tok).params.NextToken]

\* (variant: the loop goes on to the next page although the page fetch failed)
Whilst_ignoreErr(c, tok, err, tr) ==
  IF ~whilstTest(tok)
    THEN /\ trace' = tr \o <<Emit(c, BROADCAST_END, undefined, undefined), Cb(c, err, UndefRes)>>
         /\ pc' = [pc EXCEPT ![c] = "done"]
         /\ listing' = [listing EXCEPT ![c] = "idle"]
  ELSE /\ trace' = Append(tr, _getUsers(c, tok))
       /\ pc' = [pc EXCEPT ![c] = "listMore"]
       /\ listing' = [listing EXCEPT ![c] = _getUsers(c, tok).params.NextToken]

\* async.whilst of broadcastMessage (lines 685-700) once a page is done with err:
\* stop with the error, or request the next page, or finish
Whilst(c, tok, err, tr) ==
  IF isError(err) \/ ~whilstTest(tok)
    THEN /\ trace' = tr \o <<Emit(c, BROADCAST_END, undefined, undefined), Cb(c, err, UndefRes)>>
         /\ pc' = [pc EXCEPT ![c] = "done"]
         /\ listing' = [listing EXCEPT ![c] = "idle"]
  ELSE /\ trace' = Append(tr, _getUsers(c, tok))
       /\ pc' = [pc EXCEPT ![c] = "listMore"]
       /\ listing' = [listing EXCEPT ![c] = _getUsers(c, tok).params.NextToken]

\* (variant: a page without items ends the broadcast)
FanOut_stopOnEmpty(c, first, page, tr) ==
  LET b == _broadcastMessage(c, page.Items, args[c].message, tr)
  IN  IF b.threw
        THEN /\ pc' = [pc EXCEPT ![c] = "thrown"]
             /\ trace' = b.trace
             /\ listing' = [listing EXCEPT ![c] = "idle"]
             /\ pending' = pending
      ELSE IF b.pending # {}
        THEN /\ pc' = [pc EXCEPT ![c] = IF first THEN "sendFirst" ELSE "sendMore"]
             /\ trace' = b.trace
             /\ listing' = [listing EXCEPT ![c] = "idle"]
             /\ pending' = [pending EXCEPT ![c] = b.pending]
      ELSE /\ Whilst(c, IF Len(page.Items) = 0 THEN undefined ELSE page.NextToken, undefined, b.trace)
           /\ pending' = pending

\* a page of endpoints has arrived: fan the message out over it
FanOut(c, first, page, tr) ==
  LET b == _broadcastMessage(c, page.Items, args[c].message, tr)
  IN  IF b.threw
        THEN /\ pc' = [pc EXCEPT ![c] = "thrown"]
             /\ trace' = b.trace
             /\ listing' = [listing EXCEPT ![c] = "idle"]
             /\ pending' = pending
      ELSE IF b.pending # {}
        THEN /\ pc' = [pc EXCEPT ![c] = IF first THEN "sendFirst" ELSE "sendMore"]
             /\ trace' = b.trace
             /\ listing' = [listing EXCEPT ![c] = "idle"]
             /\ pending' = [pending EXCEPT ![c] = b.pending]
      ELSE /\ Whilst(c, page.NextToken, undefined, b.trace)
           /\ pending' = pending

\* broadcastMessage(message, callback) is called
BroadcastMessage(c, m) ==
  /\ op[c] = "idle"
  /\ op' = [op EXCEPT ![c] = "broadcastMessage"]
  /\ args' = [args EXCEPT ![c] = [message |-> m, topicArn |-> undefined]]
  /\ pc' = [pc EXCEPT ![c] = "listFirst"]
  /\ listing' = [listing EXCEPT ![c] = undefined]
  /\ trace' = Append(trace, _getUsers(c, null))
  /\ UNCHANGED <<inst, pages, nextToken, acc, pending>>

ListError(c) == "ListError@" \o ToString(Len(trace) + 1)

\* a listing request of broadcastMessage fails
BroadcastListFailed(c) ==
  /\ op[c] = "broadcastMessage"
  /\ CanAnswerListing(c)
  /\ LET err == ListError(c)
         tr == Append(trace, Ret(c, "listEndpointsByPlatformApplication", listing[c], err, NullData))
     IN  IF pc[c] = "listFirst"
           THEN /\ trace' = Append(tr, Cb(c, err, NullRes))
                /\ pc' = [pc EXCEPT ![c] = "done"]
                /\ listing' = [listing EXCEPT ![c] = "idle"]
         ELSE Whilst(c, nextToken[c], err, tr)
  /\ UNCHANGED <<inst, pages, op, args, nextToken, acc, pending>>

\* (variant: broadcastStart is emitted for every page that arrives)
broadcastStarted_everyPage(c, first) == <<Emit(c, BROADCAST_START, undefined, undefined)>>

\* line 682: broadcastStart is emitted in the callback of the first listing
\* request, once it is known to have succeeded; the loop's pages emit nothing
broadcastStarted(c, first) ==
  IF first THEN <<Emit(c, BROADCAST_START, undefined, undefined)>> ELSE <<>>

\* a listing request of broadcastMessage succeeds with a page
BroadcastListed(c) ==
  /\ op[c] = "broadcastMessage"
  /\ CanAnswerListing(c)
  /\ \E page \in Served(listing[c]) :
       LET first == pc[c] = "listFirst"
           tr1 == Append(trace, Ret(c, "listEndpointsByPlatformApplication", listing[c], null, page))
           tr2 == tr1 \o broadcastStarted(c, first)
       IN  /\ pages' = Reveal(listing[c], page)
           /\ nextToken' = [nextToken EXCEPT ![c] = page.NextToken]
           /\ FanOut(c, first, page, tr2)
  /\ UNCHANGED <<inst, op, args, acc>>

\* the publish request for endpointArn returns (err, res)
Published(c, endpointArn, err, res) ==
  /\ op[c] = "broadcastMessage"
  /\ pc[c] \in {"sendFirst", "sendMore"}
  /\ endpointArn \in pending[c]
  /\ LET tr == trace \o <<Ret(c, "publish", endpointArn, err, res),
                          publishEvent(c, endpointArn, err, res)>>
         left == pending[c] \ {endpointArn}
         e == iteratorCallback(publishResult(err, res).err)
     IN  /\ pending' = [pending EXCEPT ![c] = left]
         /\ IF eachDone(left, e)
              THEN Whilst(c, nextToken[c], IF pc[c] = "sendFirst" THEN undefined ELSE e, tr)
            ELSE /\ trace' = tr
                 /\ UNCHANGED <<pc, listing>>
  /\ UNCHANGED <<inst, pages, op, args, nextToken, acc>>

PublishSucceeded(c) ==
  \E a \in pending[c] : Published(c, a, null, PublishData("mid@" \o ToString(Len(trace) + 1)))

PublishFailed(c) ==
  \E a \in pending[c] : Published(c, a, "PublishError@" \o ToString(Len(trace) + 1), NullData)

(* ------ getUsers, getApplications, getTopics, getSubscriptions -------- *)

\* Interface.prototype._getApplications: the request it makes
_getApplications(c, tok) ==
  Req(c, "listPlatformApplications", [NextToken |-> IF truthy(tok) THEN tok ELSE undefined])

\* Interface.prototype._getTopics: the request it makes
_getTopics(c, tok) ==
  Req(c, "listTopics", [NextToken |-> IF truthy(tok) THEN tok ELSE undefined])

\* (variant: a continuation request loses the topic)
_getSubscriptions_unscopedContinuation(c, tok, topicArn) ==
  IF ~truthy(topicArn) \/ truthy(tok)
    THEN Req(c, "listSubscriptions", [NextToken |-> IF truthy(tok) THEN tok ELSE undefined])
  ELSE Req(c, "listSubscriptionsByTopic",
           [NextToken |-> IF truthy(tok) THEN tok ELSE undefined, TopicArn |-> topicArn])

\* Interface.prototype._getSubscriptions: the request it makes
_getSubscriptions(c, tok, topicArn) ==
  IF ~truthy(topicArn)
    THEN Req(c, "listSubscriptions", [NextToken |-> IF truthy(tok) THEN tok ELSE undefined])
  ELSE Req(c, "listSubscriptionsByTopic",
           [NextToken |-> IF truthy(tok) THEN tok ELSE undefined, TopicArn |-> topicArn])

\* the page request of the fetcher that invocation c runs
FetchPage(c, tok) ==
  CASE op[c] = "getUsers" -> _getUsers(c, tok)
    [] op[c] = "getApplications" -> _getApplications(c, tok)
    [] op[c] = "getTopics" -> _getTopics(c, tok)
    [] op[c] = "getSubscriptions" -> _getSubscriptions(c, tok, args[c].topicArn)

\* the test of async.doWhilst in getTopics and getSubscriptions
doWhilstTest(tok) == truthy(tok)

\* the request a fetcher makes when it is called: its page request with the
\* cursor it starts from
FirstPage(c, name, tok, topicArn) ==
  CASE name = "getUsers" -> _getUsers(c, tok)
    [] name = "getApplications" -> _getApplications(c, tok)
    [] name = "getTopics" -> _getTopics(c, tok)
    [] name = "getSubscriptions" -> _getSubscriptions(c, tok, topicArn)

\* a fetcher is called: it requests the first page, with the cursor tok
StartFetch(c, name, topicArn, tok) ==
  /\ op[c] = "idle"
  /\ op' = [op EXCEPT ![c] = name]
  /\ args' = [args EXCEPT ![c] = [message |-> MsgNull, topicArn |-> topicArn]]
  /\ acc' = [acc EXCEPT ![c] = <<>>]
  /\ nextToken' = [nextToken EXCEPT ![c] = undefined]
  /\ pc' = [pc EXCEPT ![c] = "listFirst"]
  /\ listing' = [listing EXCEPT ![c] = undefined]
  /\ trace' = Append(trace, FirstPage(c, name, tok, topicArn))
  /\ UNCHANGED <<inst, pages, pending>>

GetUsers(c) == StartFetch(c, "getUsers", undefined, null)

GetApplications(c) == StartFetch(c, "getApplications", undefined, null)

GetTopics(c) == StartFetch(c, "getTopics", undefined, undefined)

GetSubscriptions(c, topicArn) == StartFetch(c, "getSubscriptions", topicArn, undefined)

\* (variant: the loop's callback hands over no list on an error either)
usersOnError_null(first, users) == NullRes

\* what getUsers and getApplications hand to the caller when a page fetch fails:
\* (err, null) from the first page's callback, (err, users) from the loop's
usersOnError(first, users) == IF first THEN NullRes ELSE ArrayRes(users)

\* a page request of getUsers or getApplications fails
UsersListFailed(c) ==
  /\ op[c] \in {"getUsers", "getApplications"}
  /\ CanAnswerListing(c)
  /\ LET err == ListError(c)
     IN  trace' = trace \o <<Ret(c, FetchPage(c, undefined).name, listing[c], err, NullData),
                             Cb(c, err, usersOnError(pc[c] = "listFirst", acc[c]))>>
  /\ pc' = [pc EXCEPT ![c] = "done"]
  /\ listing' = [listing EXCEPT ![c] = "idle"]
  /\ UNCHANGED <<inst, pages, op, args, nextToken, acc, pending>>

\* a page request of getUsers or getApplications succeeds
UsersListed(c) ==
  /\ op[c] \in {"getUsers", "getApplications"}
  /\ CanAnswerListing(c)
  /\ \E page \in Served(listing[c]) :
       LET users == acc[c] \o page.Items
           tr == Append(trace, Ret(c, FetchPage(c, undefined).name, listing[c], null, page))
       IN  /\ pages' = Reveal(listing[c], page)
           /\ nextToken' = [nextToken EXCEPT ![c] = page.NextToken]
           /\ acc' = [acc EXCEPT ![c] = users]
           /\ IF whilstTest(page.NextToken)
                THEN /\ trace' = Append(tr, FetchPage(c, page.NextToken))
                     /\ pc' = [pc EXCEPT ![c] = "listMore"]
                     /\ listing' = [listing EXCEPT ![c] = FetchPage(c, page.NextToken).params.NextToken]
              ELSE /\ trace' = Append(tr, Cb(c, undefined, ArrayRes(users)))
                   /\ pc' = [pc EXCEPT ![c] = "done"]
                   /\ listing' = [listing EXCEPT ![c] = "idle"]
  /\ UNCHANGED <<inst, op, args, pending>>

\* a page request of getTopics or getSubscriptions fails
TopicsListFailed(c) ==
  /\ op[c] \in {"getTopics", "getSubscriptions"}
  /\ CanAnswerListing(c)
  /\ LET err == ListError(c)
     IN  trace' = trace \o <<Ret(c, FetchPage(c, undefined).name, listing[c], err, NullData),
                             Cb(c, err, UndefRes)>>
  /\ pc' = [pc EXCEPT ![c] = "done"]
  /\ listing' = [listing EXCEPT ![c] = "idle"]
  /\ UNCHANGED <<inst, pages, op, args, nextToken, acc, pending>>

\* a page request of getTopics or getSubscriptions succeeds
TopicsListed(c) ==
  /\ op[c] \in {"getTopics", "getSubscriptions"}
  /\ CanAnswerListing(c)
  /\ \E page \in Served(listing[c]) :
       LET topics == IF Len(page.Items) > 0 THEN acc[c] \o page.Items ELSE acc[c]
           tr == Append(trace, Ret(c, FetchPage(c, undefined).name, listing[c], null, page))
       IN  /\ pages' = Reveal(listing[c], page)
           /\ nextToken' = [nextToken EXCEPT ![c] = page.NextToken]
           /\ acc' = [acc EXCEPT ![c] = topics]
           /\ IF doWhilstTest(page.NextToken)
                THEN /\ trace' = Append(tr, FetchPage(c, page.NextToken))
                     /\ pc' = [pc EXCEPT ![c] = "listMore"]
                     /\ listing' = [listing EXCEPT ![c] = FetchPage(c, page.NextToken).params.NextToken]
              ELSE /\ trace' = Append(tr, Cb(c, null, ArrayRes(topics)))
                   /\ pc' = [pc EXCEPT ![c] = "done"]
                   /\ listing' = [listing EXCEPT ![c] = "idle"]
  /\ UNCHANGED <<inst, op, args, pending>>

(* ---- addUser, deleteUser, setAttributes, publishToTopic, sendMessage ---- *)
(* The methods that make one backend request.  pc is "wait" while the       *)
(* request is in flight, "done" after the caller's callback, "thrown" when  *)
(* the call ended with an exception.                                        *)

DeviceIds == {"device-token"}
EndpointArns == {"arn:endpoint"}

\* the caller's callback function, seen as a value
CallbackFn == "function callback"

\* the [data] argument of addUser when three arguments are passed
UserData == {"{\"username\":\"fakeuser\"}", "", null, undefined}

\* the data of a successful createPlatformEndpoint
EndpointData(arn) == [isNull |-> FALSE, EndpointArn |-> arn]

BackendError(api) == api \o "Error@" \o ToString(Len(trace) + 1)

\* addUser, lines 126-137: the parameter customUserData as the body sees it.
\* With two arguments the callback sits in the customUserData position.
customUserDataParam(argc, data) == IF argc = 2 THEN CallbackFn ELSE data

\* addUser, lines 130-137: the params of createPlatformEndpoint
createPlatformEndpointParams(deviceId, argc, data) ==
  [PlatformApplicationArn |-> getPlatformApplicationArn,
   Token |-> deviceId,
   CustomUserData |-> IF truthy(customUserDataParam(argc, data))
                        THEN customUserDataParam(argc, data) ELSE undefined]

\* addUser(deviceId, callback) (argc = 2) or addUser(deviceId, data, callback) (argc = 3)
AddUser(c, deviceId, argc, data) ==
  /\ op[c] = "idle"
  /\ op' = [op EXCEPT ![c] = "addUser"]
  /\ args' = [args EXCEPT ![c] = [deviceId |-> deviceId, argc |-> argc, data |-> data]]
  /\ pc' = [pc EXCEPT ![c] = "wait"]
  /\ trace' = Append(trace, Req(c, "createPlatformEndpoint",
                                createPlatformEndpointParams(deviceId, argc, data)))
  /\ UNCHANGED <<inst, pages, listing, nextToken, acc, pending>>

\* (variant: the failure branch emits nothing)
addUserEvents_silentFailure(c, deviceId, err, res) ==
  IF ~isError(err) THEN <<Emit(c, ADDED_USER, res.EndpointArn, deviceId)>>
  ELSE <<>>

\* the createPlatformEndpoint callback of addUser, lines 141-145
addUserEvents(c, deviceId, err, res) ==
  IF ~isError(err) THEN <<Emit(c, ADDED_USER, res.EndpointArn, deviceId)>>
  ELSE <<Emit(c, ADD_USER_FAILED, deviceId, err)>>

\* line 146: (res && res.EndpointArn) ? res.EndpointArn : null
addUserResult(res) ==
  IF ~res.isNull /\ truthy(res.EndpointArn) THEN StringRes(res.EndpointArn) ELSE NullRes

\* createPlatformEndpoint calls back with (err, res)
CreatePlatformEndpointReturned(c) ==
  /\ op[c] = "addUser"
  /\ pc[c] = "wait"
  /\ \E r \in { [err |-> null, res |-> EndpointData("arn:endpoint@" \o ToString(Len(trace) + 1))],
                [err |-> BackendError("createPlatformEndpoint"), res |-> NullData] } :
       trace' = trace \o <<Ret(c, "createPlatformEndpoint", args[c].deviceId, r.err, r.res)>>
                      \o addUserEvents(c, args[c].deviceId, r.err, r.res)
                      \o <<Cb(c, r.err, addUserResult(r.res))>>
  /\ pc' = [pc EXCEPT ![c] = "done"]
  /\ UNCHANGED <<inst, pages, op, args, listing, nextToken, acc, pending>>

\* deleteUser(endpointArn, callback)
DeleteUser(c, endpointArn) ==
  /\ op[c] = "idle"
  /\ op' = [op EXCEPT ![c] = "deleteUser"]
  /\ args' = [args EXCEPT ![c] = [endpointArn |-> endpointArn]]
  /\ pc' = [pc EXCEPT ![c] = "wait"]
  /\ trace' = Append(trace, Req(c, "deleteEndpoint", [EndpointArn |-> endpointArn]))
  /\ UNCHANGED <<inst, pages, listing, nextToken, acc, pending>>

\* (variant: userDeleted is emitted whatever the outcome)
deleteUserEvents_always(c, endpointArn, err) ==
  <<Emit(c, DELETED_USER, endpointArn, undefined)>>

\* the deleteEndpoint callback of deleteUser, lines 350-352
deleteUserEvents(c, endpointArn, err) ==
  IF ~isError(err) THEN <<Emit(c, DELETED_USER, endpointArn, undefined)>> ELSE <<>>

\* deleteEndpoint calls back with (err)
DeleteEndpointReturned(c) ==
  /\ op[c] = "deleteUser"
  /\ pc[c] = "wait"
  /\ \E err \in {null, BackendError("deleteEndpoint")} :
       trace' = trace \o <<Ret(c, "deleteEndpoint", args[c].endpointArn, err, NullData)>>
                      \o deleteUserEvents(c, args[c].endpointArn, err)
                      \o <<Cb(c, err, UndefRes)>>
  /\ pc' = [pc EXCEPT ![c] = "done"]
  /\ UNCHANGED <<inst, pages, op, args, listing, nextToken, acc, pending>>

\* An attributes argument: its typeof, whether it is null, and what its
\* CustomUserData property is: "absent", "string", "object" (serialisable),
\* "cyclic" (an object JSON.stringify throws on) or "json" (a string that
\* JSON.stringify produced).  ref tells one object from another.
Attrs(ref, type, isNull, cud) ==
  [ref |-> ref, type |-> type, isNull |-> isNull, CustomUserData |-> cud]

AttributeArgs ==
  { Attrs("attributes", "object", FALSE, cud) : cud \in {"absent", "string", "object", "cyclic"} }
    \cup { Attrs("null", "object", TRUE, "absent"),
           Attrs("'Enabled'", "string", FALSE, "absent"),
           Attrs("undefined", "undefined", FALSE, "absent") }

\* (variant: anything that is not a string passes the type test)
setAttributesCheck_lax(attributes) ==
  IF attributes.type # "string"
    THEN [ok |-> TRUE, err |-> null, attributes |-> attributes]
  ELSE [ok |-> FALSE,
        err |-> "Error: Expected second parameter to be of type object",
        attributes |-> attributes]

\* setAttributes, lines 182-195: the type test and the conversion of
\* CustomUserData; the object is changed in place
setAttributesCheck(attributes) ==
  IF attributes.type = "object"
    THEN IF attributes.isNull
           THEN [ok |-> FALSE, err |-> "TypeError", attributes |-> attributes]
         ELSE IF attributes.CustomUserData = "cyclic"
           THEN [ok |-> FALSE, err |-> "TypeError", attributes |-> attributes]
         ELSE IF attributes.CustomUserData = "object"
           THEN [ok |-> TRUE, err |-> null,
                 attributes |-> [attributes EXCEPT !.CustomUserData = "json"]]
         ELSE [ok |-> TRUE, err |-> null, attributes |-> attributes]
  ELSE [ok |-> FALSE,
        err |-> "Error: Expected second parameter to be of type object",
        attributes |-> attributes]

\* setAttributes(endpointArn, attributes, callback)
SetAttributes(c, endpointArn, attributes) ==
  /\ op[c] = "idle"
  /\ op' = [op EXCEPT ![c] = "setAttributes"]
  /\ LET chk == setAttributesCheck(attributes)
     IN  /\ args' = [args EXCEPT ![c] = [endpointArn |-> endpointArn, given |-> attributes,
                                         attributes |-> chk.attributes]]
         /\ IF chk.ok
              THEN /\ trace' = Append(trace, Req(c, "setEndpointAttributes",
                                                 [EndpointArn |-> endpointArn,
                                                  Attributes |-> chk.attributes]))
                   /\ pc' = [pc EXCEPT ![c] = "wait"]
            ELSE /\ trace' = Append(trace, Cb(c, chk.err, NullRes))
                 /\ pc' = [pc EXCEPT ![c] = "done"]
  /\ UNCHANGED <<inst, pages, listing, nextToken, acc, pending>>

\* (variant: both outcomes emit attributesUpdated)
setAttributesEvents_alwaysUpdated(c, endpointArn, attributes, err) ==
  <<Emit(c, ATTRIBUTES_UPDATED, endpointArn, attributes)>>

\* the setEndpointAttributes callback of setAttributes, lines 201-205
setAttributesEvents(c, endpointArn, attributes, err) ==
  IF ~isError(err) THEN <<Emit(c, ATTRIBUTES_UPDATED, endpointArn, attributes)>>
  ELSE <<Emit(c, ATTRIBUTES_UPDATE_FAILED, endpointArn, err)>>

\* setEndpointAttributes calls back with (err)
SetEndpointAttributesReturned(c) ==
  /\ op[c] = "setAttributes"
  /\ pc[c] = "wait"
  /\ \E err \in {null, BackendError("setEndpointAttributes")} :
       trace' = trace \o <<Ret(c, "setEndpointAttributes", args[c].endpointArn, err, NullData)>>
                      \o setAttributesEvents(c, args[c].endpointArn, args[c].attributes, err)
                      \o <<Cb(c, err, ObjectRes(args[c].attributes))>>
  /\ pc' = [pc EXCEPT ![c] = "done"]
  /\ UNCHANGED <<inst, pages, op, args, listing, nextToken, acc, pending>>

\* A message argument of publishToTopic: whether it is null, its `default`
\* property (typeof and truthiness) and whether JSON.stringify throws on it.
TopicMsg(isNull, default, cyclic) == [isNull |-> isNull, default |-> default, cyclic |-> cyclic]

DefaultKey(type, isTruthy) == [type |-> type, truthy |-> isTruthy]

DefaultMissing == DefaultKey("undefined", FALSE)
DefaultEmpty == DefaultKey("string", FALSE)
DefaultText == DefaultKey("string", TRUE)

Defaults ==
  { DefaultMissing, DefaultEmpty, DefaultText,
    DefaultKey("number", FALSE),   \* 0
    DefaultKey("number", TRUE),    \* 42
    DefaultKey("object", TRUE),    \* {text: ...}
    DefaultKey("object", FALSE) }  \* null

TopicMessages ==
  { TopicMsg(FALSE, d, cyc) : d \in Defaults, cyc \in BOOLEAN } \cup { TopicMsg(TRUE, DefaultMissing, FALSE) }

\* (variant: only the presence of `default` is tested)
validateMessageStructure_anyType(message) == message.default.truthy

\* publishToTopic, lines 599-607
validateMessageStructure(message) ==
  IF ~message.default.truthy THEN FALSE
  ELSE IF message.default.type # "string" THEN FALSE
  ELSE TRUE

MessageFormatError == "Error: Argument \"message\" must be in SNS multi-platform publishing format."

\* publishToTopic(topicArn, message, callback)
PublishToTopic(c, topicArn, message) ==
  /\ op[c] = "idle"
  /\ op' = [op EXCEPT ![c] = "publishToTopic"]
  /\ args' = [args EXCEPT ![c] = [topicArn |-> topicArn, message |-> message]]
  /\ IF message.isNull
       THEN \* message.default throws a TypeError
            /\ pc' = [pc EXCEPT ![c] = "thrown"]
            /\ trace' = trace
     ELSE IF ~validateMessageStructure(message)
       THEN /\ pc' = [pc EXCEPT ![c] = "done"]
            /\ trace' = Append(trace, Cb(c, MessageFormatError, UndefRes))
     ELSE IF JSONstringify(message).threw
       THEN /\ pc' = [pc EXCEPT ![c] = "thrown"]
            /\ trace' = trace
     ELSE /\ pc' = [pc EXCEPT ![c] = "wait"]
          /\ trace' = Append(trace, Req(c, "publish",
                                        [Message |-> JSONstringify(message).text,
                                         TopicArn |-> topicArn,
                                         MessageStructure |-> "json"]))
  /\ UNCHANGED <<inst, pages, listing, nextToken, acc, pending>>

\* the data of a publish that succeeded without a MessageId
NoMessageId == [isNull |-> FALSE, MessageId |-> undefined]

\* the publish callback of publishToTopic, lines 587-597
publishToTopicCallback(c, topicArn, err, res) ==
  IF isError(err)
    THEN <<Emit(c, PUBLISH_FAILED, topicArn, err), Cb(c, err, UndefRes)>>
  ELSE IF res.isNull \/ ~truthy(res.MessageId)
    THEN <<Cb(c, "Error: Response or MessageId is null", UndefRes)>>
  ELSE <<Emit(c, PUBLISHED_MESSAGE, topicArn, res.MessageId),
         Cb(c, null, StringRes(res.MessageId))>>

\* publish calls back with (err, res)
TopicPublishReturned(c) ==
  /\ op[c] = "publishToTopic"
  /\ pc[c] = "wait"
  /\ \E r \in { [err |-> null, res |-> PublishData("mid@" \o ToString(Len(trace) + 1))],
                [err |-> null, res |-> NoMessageId],
                [err |-> null, res |-> NullData],
                [err |-> BackendError("publish"), res |-> NullData] } :
       trace' = Append(trace, Ret(c, "publish", args[c].topicArn, r.err, r.res))
                  \o publishToTopicCallback(c, args[c].topicArn, r.err, r.res)
  /\ pc' = [pc EXCEPT ![c] = "done"]
  /\ UNCHANGED <<inst, pages, op, args, listing, nextToken, acc, pending>>

\* sendMessage(endpointArn, msg, callback) is called by the user
SendMessage(c, endpointArn, m) ==
  /\ op[c] = "idle"
  /\ op' = [op EXCEPT ![c] = "sendMessage"]
  /\ args' = [args EXCEPT ![c] = [endpointArn |-> endpointArn, message |-> m]]
  /\ LET s == sendMessage(c, endpointArn, m)
     IN  IF s.kind = "throw"
           THEN /\ pc' = [pc EXCEPT ![c] = "thrown"]
                /\ trace' = trace
                /\ pending' = pending
         ELSE IF s.kind = "caught"
           THEN /\ pc' = [pc EXCEPT ![c] = "done"]
                /\ trace' = Append(trace, Cb(c, s.err, NullRes))
                /\ pending' = pending
         ELSE /\ pc' = [pc EXCEPT ![c] = "wait"]
              /\ trace' = Append(trace, s.req)
              /\ pending' = [pending EXCEPT ![c] = {endpointArn}]
  /\ UNCHANGED <<inst, pages, listing, nextToken, acc>>

\* line 648: callback(err, (res && res.MessageId) ? res.MessageId : null)
sendMessageCallback(c, err, res) ==
  LET r == publishResult(err, res)
  IN  Cb(c, r.err, IF r.res = null THEN NullRes ELSE StringRes(r.res))

\* the publish request of a sendMessage call returns (err, res)
SendMessageReturned(c) ==
  /\ op[c] = "sendMessage"
  /\ pc[c] = "wait"
  /\ \E r \in { [err |-> null, res |-> PublishData("mid@" \o ToString(Len(trace) + 1))],
                [err |-> BackendError("publish"), res |-> NullData] } :
       trace' = trace \o <<Ret(c, "publish", args[c].endpointArn, r.err, r.res),
                           publishEvent(c, args[c].endpointArn, r.err, r.res),
                           sendMessageCallback(c, r.err, r.res)>>
  /\ pc' = [pc EXCEPT ![c] = "done"]
  /\ pending' = [pending EXCEPT ![c] = {}]
  /\ UNCHANGED <<inst, pages, op, args, listing, nextToken, acc>>

(* ------- getUser, createTopic, deleteTopic, subscribe, unsubscribe ------- *)

\* the data of a successful getEndpointAttributes: the backend's object, which
\* carries Attributes and no EndpointArn
AttributesData == [ref |-> "res", isNull |-> FALSE, Attributes |-> "attributes", EndpointArn |-> undefined]

\* getUser(endpointArn, callback)
GetUser(c, endpointArn) ==
  /\ op[c] = "idle"
  /\ op' = [op EXCEPT ![c] = "getUser"]
  /\ args' = [args EXCEPT ![c] = [endpointArn |-> endpointArn]]
  /\ pc' = [pc EXCEPT ![c] = "wait"]
  /\ trace' = Append(trace, Req(c, "getEndpointAttributes", [EndpointArn |-> endpointArn]))
  /\ UNCHANGED <<inst, pages, listing, nextToken, acc, pending>>

\* (variant: the backend's object is handed on as it came)
getUserCallback_untouched(c, endpointArn, err, res) ==
  IF isError(err) THEN Cb(c, err, NullRes)
  ELSE Cb(c, null, ObjectRes(res))

\* the getEndpointAttributes callback of getUser, lines 160-167
getUserCallback(c, endpointArn, err, res) ==
  IF isError(err) THEN Cb(c, err, NullRes)
  ELSE Cb(c, null, ObjectRes([res EXCEPT !.EndpointArn = endpointArn]))

\* getEndpointAttributes calls back with (err, res)
GetEndpointAttributesReturned(c) ==
  /\ op[c] = "getUser"
  /\ pc[c] = "wait"
  /\ \E r \in { [err |-> null, res |-> AttributesData],
                [err |-> BackendError("getEndpointAttributes"), res |-> NullData] } :
       trace' = trace \o <<Ret(c, "getEndpointAttributes", args[c].endpointArn, r.err, r.res),
                           getUserCallback(c, args[c].endpointArn, r.err, r.res)>>
  /\ pc' = [pc EXCEPT ![c] = "done"]
  /\ UNCHANGED <<inst, pages, op, args, listing, nextToken, acc, pending>>

TopicNames == {"news"}
SubscriptionArns == {"arn:subscription"}

TopicData(arn) == [isNull |-> FALSE, TopicArn |-> arn]
SubscriptionData(arn) == [isNull |-> FALSE, SubscriptionArn |-> arn]

\* createTopic(name, callback)
CreateTopic(c, name) ==
  /\ op[c] = "idle"
  /\ op' = [op EXCEPT ![c] = "createTopic"]
  /\ args' = [args EXCEPT ![c] = [name |-> name]]
  /\ pc' = [pc EXCEPT ![c] = "wait"]
  /\ trace' = Append(trace, Req(c, "createTopic", [Name |-> name]))
  /\ UNCHANGED <<inst, pages, listing, nextToken, acc, pending>>

\* the createTopic callback, lines 369-379
createTopicCallback(c, name, err, res) ==
  IF isError(err)
    THEN <<Emit(c, CREATE_TOPIC_FAILED, name, err), Cb(c, err, UndefRes)>>
  ELSE IF res.isNull \/ ~truthy(res.TopicArn)
    THEN <<Cb(c, "Error: Response or TopicArn is null", UndefRes)>>
  ELSE <<Emit(c, TOPIC_CREATED, res.TopicArn, name), Cb(c, null, StringRes(res.TopicArn))>>

\* sns.createTopic calls back with (err, res)
CreateTopicReturned(c) ==
  /\ op[c] = "createTopic"
  /\ pc[c] = "wait"
  /\ \E r \in { [err |-> null, res |-> TopicData("arn:topic@" \o ToString(Len(trace) + 1))],
                [err |-> null, res |-> TopicData(undefined)],
                [err |-> null, res |-> NullData],
                [err |-> BackendError("createTopic"), res |-> NullData] } :
       trace' = Append(trace, Ret(c, "createTopic", args[c].name, r.err, r.res))
                  \o createTopicCallback(c, args[c].name, r.err, r.res)
  /\ pc' = [pc EXCEPT ![c] = "done"]
  /\ UNCHANGED <<inst, pages, op, args, listing, nextToken, acc, pending>>

\* deleteTopic(topicArn, callback)
DeleteTopic(c, topicArn) ==
  /\ op[c] = "idle"
  /\ op' = [op EXCEPT ![c] = "deleteTopic"]
  /\ args' = [args EXCEPT ![c] = [topicArn |-> topicArn]]
  /\ pc' = [pc EXCEPT ![c] = "wait"]
  /\ trace' = Append(trace, Req(c, "deleteTopic", [TopicArn |-> topicArn]))
  /\ UNCHANGED <<inst, pages, listing, nextToken, acc, pending>>

\* the deleteTopic callback, lines 394-401
deleteTopicCallback(c, topicArn, err) ==
  IF isError(err)
    THEN <<Emit(c, DELETE_TOPIC_FAILED, topicArn, err), Cb(c, err, UndefRes)>>
  ELSE <<Emit(c, TOPIC_DELETED, topicArn, undefined), Cb(c, undefined, UndefRes)>>

\* sns.deleteTopic calls back with (err)
DeleteTopicReturned(c) ==
  /\ op[c] = "deleteTopic"
  /\ pc[c] = "wait"
  /\ \E err \in {null, BackendError("deleteTopic")} :
       trace' = Append(trace, Ret(c, "deleteTopic", args[c].topicArn, err, NullData))
                  \o deleteTopicCallback(c, args[c].topicArn, err)
  /\ pc' = [pc EXCEPT ![c] = "done"]
  /\ UNCHANGED <<inst, pages, op, args, listing, nextToken, acc, pending>>

\* subscribe(endpointArn, topicArn, callback)
Subscribe(c, endpointArn, topicArn) ==
  /\ op[c] = "idle"
  /\ op' = [op EXCEPT ![c] = "subscribe"]
  /\ args' = [args EXCEPT ![c] = [endpointArn |-> endpointArn, topicArn |-> topicArn]]
  /\ pc' = [pc EXCEPT ![c] = "wait"]
  /\ trace' = Append(trace, Req(c, "subscribe",
                                [Endpoint |-> endpointArn, TopicArn |-> topicArn,
                                 Protocol |-> "application"]))
  /\ UNCHANGED <<inst, pages, listing, nextToken, acc, pending>>

\* the subscribe callback, lines 524-539
subscribeCallback(c, endpointArn, topicArn, err, res) ==
  IF isError(err)
    THEN <<Emit3(c, SUBSCRIBE_FAILED, endpointArn, topicArn, err), Cb(c, err, UndefRes)>>
  ELSE IF res.isNull \/ ~truthy(res.SubscriptionArn)
    THEN <<Cb(c, "Error: Response or SubscriptionArn is null", UndefRes)>>
  ELSE <<Emit3(c, SUBSCRIBED, res.SubscriptionArn, endpointArn, topicArn),
         Cb(c, null, StringRes(res.SubscriptionArn))>>

\* sns.subscribe calls back with (err, res)
SubscribeReturned(c) ==
  /\ op[c] = "subscribe"
  /\ pc[c] = "wait"
  /\ \E r \in { [err |-> null, res |-> SubscriptionData("arn:subscription@" \o ToString(Len(trace) + 1))],
                [err |-> null, res |-> SubscriptionData(undefined)],
                [err |-> null, res |-> NullData],
                [err |-> BackendError("subscribe"), res |-> NullData] } :
       trace' = Append(trace, Ret(c, "subscribe", args[c].endpointArn, r.err, r.res))
                  \o subscribeCallback(c, args[c].endpointArn, args[c].topicArn, r.err, r.res)
  /\ pc' = [pc EXCEPT ![c] = "done"]
  /\ UNCHANGED <<inst, pages, op, args, listing, nextToken, acc, pending>>

\* unsubscribe(subscriptionArn, callback)
Unsubscribe(c, subscriptionArn) ==
  /\ op[c] = "idle"
  /\ op' = [op EXCEPT ![c] = "unsubscribe"]
  /\ args' = [args EXCEPT ![c] = [subscriptionArn |-> subscriptionArn]]
  /\ pc' = [pc EXCEPT ![c] = "wait"]
  /\ trace' = Append(trace, Req(c, "unsubscribe", [SubscriptionArn |-> subscriptionArn]))
  /\ UNCHANGED <<inst, pages, listing, nextToken, acc, pending>>

\* the unsubscribe callback, lines 554-561
unsubscribeCallback(c, subscriptionArn, err) ==
  IF isError(err)
    THEN <<Emit(c, UNSUBSCRIBE_FAILED, subscriptionArn, err), Cb(c, err, UndefRes)>>
  ELSE <<Emit(c, UNSUBSCRIBED, subscriptionArn, undefined), Cb(c, undefined, UndefRes)>>

\* sns.unsubscribe calls back with (err)
UnsubscribeReturned(c) ==
  /\ op[c] = "unsubscribe"
  /\ pc[c] = "wait"
  /\ \E err \in {null, BackendError("unsubscribe")} :
       trace' = Append(trace, Ret(c, "unsubscribe", args[c].subscriptionArn, err, NullData))
                  \o unsubscribeCallback(c, args[c].subscriptionArn, err)
  /\ pc' = [pc EXCEPT ![c] = "done"]
  /\ UNCHANGED <<inst, pages, op, args, listing, nextToken, acc, pending>>

(* ------------------------------ behaviours ---------------------------- *)

\* the instance after new Interface(opts): opts.platformApplicationArn is one of
\* arns and opts.platform a supported platform; no method has been called yet
Constructed(arns) ==
  /\ platform \in SUPPORTED_PLATFORMS
  /\ deviceSupported(platform)
  /\ sandbox \in (IF platform \in {"IOS", "ios"} THEN BOOLEAN ELSE {FALSE})
  /\ platformApplicationArn \in arns
  /\ pages = <<>>
  /\ op = [c \in Calls |-> "idle"]
  /\ args = [c \in Calls |-> [message |-> MsgNull, topicArn |-> undefined]]
  /\ pc = [c \in Calls |-> "idle"]
  /\ listing = [c \in Calls |-> "idle"]
  /\ nextToken = [c \in Calls |-> undefined]
  /\ acc = [c \in Calls |-> <<>>]
  /\ pending = [c \in Calls |-> {}]
  /\ trace = <<>>

Init == Constructed({"arn:app"})

NextBroadcast ==
  \/ \E m \in Messages : BroadcastMessage(Solo, m)
  \/ BroadcastListFailed(Solo)
  \/ BroadcastListed(Solo)
  \/ PublishSucceeded(Solo)
  \/ PublishFailed(Solo)

\* one broadcastMessage invocation on a fresh instance
SpecBroadcast == Init /\ [][NextBroadcast]_vars

\* the same, with every backend call eventually completing: a listing request
\* in flight is answered (with a page or an error), and so is a publish request
SpecBroadcastLive ==
  /\ SpecBroadcast
  /\ WF_vars(BroadcastListed(Solo) \/ BroadcastListFailed(Solo))
  /\ WF_vars(PublishSucceeded(Solo) \/ PublishFailed(Solo))

TopicArns == {undefined, "arn:topic"}

NextFetch ==
  \/ GetUsers(Solo)
  \/ GetApplications(Solo)
  \/ GetTopics(Solo)
  \/ \E topicArn \in TopicArns : GetSubscriptions(Solo, topicArn)
  \/ UsersListFailed(Solo)
  \/ UsersListed(Solo)
  \/ TopicsListFailed(Solo)
  \/ TopicsListed(Solo)

\* one invocation of one of the four collection fetchers on a fresh instance
SpecFetch == Init /\ [][NextFetch]_vars

\* one invocation of broadcastMessage or of one of the four fetchers
SpecTraverse == Init /\ [][NextBroadcast \/ NextFetch]_vars

\* invocation slots are taken in order
Free(c) == \A d \in Calls : d < c => op[d] # "idle"

NextFetchAll ==
  \E c \in Calls :
    \/ Free(c) /\ GetUsers(c)
    \/ Free(c) /\ GetApplications(c)
    \/ Free(c) /\ GetTopics(c)
    \/ \E topicArn \in TopicArns : Free(c) /\ GetSubscriptions(c, topicArn)
    \/ UsersListFailed(c)
    \/ UsersListed(c)
    \/ TopicsListFailed(c)
    \/ TopicsListed(c)

\* the fetchers do not look at the platform: one instance stands for all
InitAndroid == Init /\ platform = "ANDROID"

\* the fetchers side by side: every invocation slot runs one of them, all over
\* the same collection
SpecFetchAll == InitAndroid /\ [][NextFetchAll]_vars

\* the messages of overlapping broadcasts: one that is sent and one on which
\* JSON.stringify throws
OverlapMessages == {m \in Messages : m.type = "string" \/ (m.cyclic /\ "GCM" \in m.keys)}

NextOverlap ==
  \E c \in Calls :
    \/ Free(c) /\ GetUsers(c)
    \/ \E m \in OverlapMessages : Free(c) /\ BroadcastMessage(c, m)
    \/ UsersListFailed(c)
    \/ UsersListed(c)
    \/ BroadcastListFailed(c)
    \/ BroadcastListed(c)
    \/ PublishSucceeded(c)
    \/ PublishFailed(c)

\* getUsers and broadcastMessage invocations that overlap on one instance, their
\* backend callbacks delivered in any order
SpecOverlap == InitAndroid /\ [][NextOverlap]_vars

TopicArn == "arn:topic"

NextDirect ==
  \/ \E deviceId \in DeviceIds, data \in UserData : AddUser(Solo, deviceId, 3, data)
  \/ \E deviceId \in DeviceIds : AddUser(Solo, deviceId, 2, undefined)
  \/ CreatePlatformEndpointReturned(Solo)
  \/ \E endpointArn \in EndpointArns : DeleteUser(Solo, endpointArn)
  \/ DeleteEndpointReturned(Solo)
  \/ \E endpointArn \in EndpointArns, attributes \in AttributeArgs :
       SetAttributes(Solo, endpointArn, attributes)
  \/ SetEndpointAttributesReturned(Solo)
  \/ \E message \in TopicMessages : PublishToTopic(Solo, TopicArn, message)
  \/ TopicPublishReturned(Solo)
  \/ \E endpointArn \in EndpointArns, m \in Messages : SendMessage(Solo, endpointArn, m)
  \/ SendMessageReturned(Solo)
  \/ \E endpointArn \in EndpointArns : GetUser(Solo, endpointArn)
  \/ GetEndpointAttributesReturned(Solo)
  \/ \E name \in TopicNames : CreateTopic(Solo, name)
  \/ CreateTopicReturned(Solo)
  \/ DeleteTopic(Solo, TopicArn)
  \/ DeleteTopicReturned(Solo)
  \/ \E endpointArn \in EndpointArns : Subscribe(Solo, endpointArn, TopicArn)
  \/ SubscribeReturned(Solo)
  \/ \E subscriptionArn \in SubscriptionArns : Unsubscribe(Solo, subscriptionArn)
  \/ UnsubscribeReturned(Solo)

\* one invocation of one of the single-request methods on a fresh instance
SpecDirect == Init /\ [][NextDirect]_vars

(* ------------------------- reading the trace -------------------------- *)

Idx == 1..Len(trace)

IsCb(i, c) == trace[i].t = "cb" /\ trace[i].c = c
IsEmit(i, c, name) == trace[i].t = "emit" /\ trace[i].c = c /\ trace[i].name = name
IsListReq(i, c) == trace[i].t = "req" /\ trace[i].c = c /\ trace[i].name \in ListApis
IsListRet(i, c) == trace[i].t = "ret" /\ trace[i].c = c /\ trace[i].name \in ListApis
IsListOk(i, c) == IsListRet(i, c) /\ ~isError(trace[i].err)
IsListErr(i, c) == IsListRet(i, c) /\ isError(trace[i].err)
IsPubReq(i, c) == trace[i].t = "req" /\ trace[i].c = c /\ trace[i].name = "publish"
IsPubRet(i, c) == trace[i].t = "ret" /\ trace[i].c = c /\ trace[i].name = "publish"
IsPubErr(i, c) == IsPubRet(i, c) /\ isError(trace[i].err)

\* how many entries before position i satisfy P
Before(i, P(_)) == Cardinality({j \in 1..(i - 1) : P(j)})
Count(P(_)) == Before(Len(trace) + 1, P)

\* the sends of c in flight just before position i
InFlightBefore(i, c) ==
  LET req(j) == IsPubReq(j, c)
      ret(j) == IsPubRet(j, c)
  IN  Before(i, req) - Before(i, ret)

\* the first listing response of c is at position i
IsFirstListRet(i, c) == IsListRet(i, c) /\ \A j \in 1..(i - 1) : ~IsListRet(j, c)
FirstListingFailed(c) == \E i \in Idx : IsFirstListRet(i, c) /\ IsListErr(i, c)
FirstListingOk(c) == \E i \in Idx : IsFirstListRet(i, c) /\ IsListOk(i, c)

\* the listing response whose page the entry at position j belongs to
PageAt(j, c) == CHOOSE i \in 1..(j - 1) : IsListOk(i, c) /\ \A k \in (i + 1)..(j - 1) : ~IsListOk(k, c)

\* the entries that follow position i
After(i) == SubSeq(trace, i + 1, Len(trace))

Completed(c) == \E i \in Idx : IsCb(i, c)

(* ------------------------------ claims -------------------------------- *)

\* C1: the completion callback of broadcastMessage gets an error if and only if
\* a listing call has failed; failed sends, however many, never reach it.
C1_ErrorIffListingFailed ==
  \A i \in Idx :
    IsCb(i, Solo) =>
      (isError(trace[i].err) <=> \E j \in 1..(i - 1) : IsListErr(j, Solo))

\* C1 witness: a broadcast over two or more targets ended without error although
\* every send failed.
C1_Witness_AllSendsFailed ==
  LET failed(j) == IsEmit(j, Solo, FAILED_SEND)
      sent(j) == IsEmit(j, Solo, SENT_MESSAGE)
  IN  /\ \E i \in Idx : IsCb(i, Solo) /\ ~isError(trace[i].err)
      /\ Count(failed) >= 2
      /\ Count(sent) = 0

\* C2: in a broadcast every failed publish is followed at once by one sendFailed
\* event with the target's EndpointArn and the publish error, and sendFailed is
\* emitted for nothing else; the failure aborts nothing: every item of the page
\* it belongs to has been dispatched and stays in flight until its own publish
\* returns, and once the page has settled the broadcast goes on as the page's
\* cursor says: the next page is requested, or the broadcast ends without error.
C2_SendFailureAbortsNothing ==
  /\ \A j \in Idx :
       IsPubErr(j, Solo) =>
         /\ j < Len(trace)
         /\ trace[j + 1] = Emit(Solo, FAILED_SEND, trace[j].target, trace[j].err)
  /\ \A j \in Idx :
       IsEmit(j, Solo, FAILED_SEND) => j > 1 /\ IsPubErr(j - 1, Solo)
  /\ \A j \in Idx :
       IsPubErr(j, Solo) =>
         LET i == PageAt(j, Solo)
             page == trace[i].data
             items == {page.Items[k] : k \in 1..Len(page.Items)}
             \* the entries of this page: up to the next listing response
             mine == {k \in (i + 1)..Len(trace) : \A l \in (i + 1)..k : ~IsListRet(l, Solo)}
             settled == {a \in items : \E k \in mine : IsPubRet(k, Solo) /\ trace[k].target = a}
         IN  /\ \A a \in items : \E k \in mine : IsPubReq(k, Solo) /\ trace[k].params.TargetArn = a
             /\ \A a \in items \ settled : a \in pending[Solo]
             /\ \A k \in mine : ~IsCb(k, Solo) \/ settled = items
             /\ settled = items =>
                  IF whilstTest(page.NextToken)
                    THEN \E k \in mine : IsListReq(k, Solo)
                  ELSE \E k \in mine : IsCb(k, Solo) /\ ~isError(trace[k].err)

\* C2 witness: of the two sends of the first page one failed and the other was
\* delivered after the failure; the second page was then requested and the
\* broadcast ended without error.
C2_Witness_FailureThenMore ==
  \E j \in Idx :
    /\ IsPubErr(j, Solo)
    /\ \E k \in (j + 1)..Len(trace) :
         IsEmit(k, Solo, SENT_MESSAGE) /\ trace[k].a[1] = trace[j].target[1]
    /\ \E k \in (j + 1)..Len(trace) : IsListReq(k, Solo)
    /\ \E k \in (j + 1)..Len(trace) : IsCb(k, Solo) /\ ~isError(trace[k].err)

\* C4: a listing request of a broadcast is issued only when every send issued
\* before it has returned; no listing request is in flight together with a send.
C4_PageSettlesBeforeNextListing ==
  /\ \A i \in Idx : IsListReq(i, Solo) => InFlightBefore(i, Solo) = 0
  /\ ~(listing[Solo] # "idle" /\ pending[Solo] # {})

\* C4 witness: the second page has been requested after a first page of two sends.
C4_Witness_SecondPageRequested ==
  LET req(j) == IsListReq(j, Solo)
      pub(j) == IsPubRet(j, Solo)
  IN  Count(req) = 2 /\ Count(pub) = 2 /\ listing[Solo] # "idle"

ItemsListed(c) ==
  UNION {{trace[i].data.Items[k] : k \in 1..Len(trace[i].data.Items)} : i \in {j \in Idx : IsListOk(j, c)}}
SendsTo(c, a) == Cardinality({i \in Idx : IsPubReq(i, c) /\ trace[i].params.TargetArn = a})

\* C3 as claimed: when no listing call fails, no item is ever sent to twice and,
\* on completion, every item of every page has had exactly one send, the
\* messageSent and sendFailed events add up to the number of items, and the
\* sendFailed events are those of the failed publishes.
C3_Original_EveryItemSentOnce ==
  LET sent(j) == IsEmit(j, Solo, SENT_MESSAGE)
      failed(j) == IsEmit(j, Solo, FAILED_SEND)
      pubErr(j) == IsPubErr(j, Solo)
      listErr(j) == IsListErr(j, Solo)
  IN  Count(listErr) = 0 =>
        /\ \A a \in ItemsListed(Solo) : SendsTo(Solo, a) <= 1
        /\ Completed(Solo) =>
             /\ \A a \in ItemsListed(Solo) : SendsTo(Solo, a) = 1
             /\ Count(sent) + Count(failed) = Cardinality(ItemsListed(Solo))
             /\ Count(failed) = Count(pubErr)

C7_ListingFailureEndsBroadcast ==
  \A i \in Idx :
    IsListErr(i, Solo) =>
      /\ After(i) = IF IsFirstListRet(i, Solo)
                      THEN <<Cb(Solo, trace[i].err, NullRes)>>
                    ELSE <<Emit(Solo, BROADCAST_END, undefined, undefined),
                           Cb(Solo, trace[i].err, UndefRes)>>
      /\ \A j \in 1..i : ~IsCb(j, Solo)
      /\ listing[Solo] = "idle"
      /\ pending[Solo] = {}

\* C7 witness: the listing of the second page failed after the first page, which
\* carried a cursor, had been sent to.
C7_Witness_SecondListingFailed ==
  \E i \in Idx :
    /\ IsListErr(i, Solo)
    /\ ~IsFirstListRet(i, Solo)
    /\ \E j \in 1..(i - 1) : IsPubRet(j, Solo)
    /\ nextToken[Solo] = Token(2)

\* C10 as claimed: when the first page is empty and carries no cursor (null,
\* undefined or the empty string), the broadcast consists of the listing,
\* broadcastStart, broadcastEnd and the callback without error, and nothing else.
C10_Original_EmptyBroadcast ==
  \A i \in Idx :
    (/\ IsFirstListRet(i, Solo)
     /\ IsListOk(i, Solo)
     /\ Len(trace[i].data.Items) = 0
     /\ ~truthy(trace[i].data.NextToken)) =>
       After(i) = <<Emit(Solo, BROADCAST_START, undefined, undefined),
                    Emit(Solo, BROADCAST_END, undefined, undefined),
                    Cb(Solo, undefined, UndefRes)>>

(* -------------------------- claims: fetchers -------------------------- *)

\* the items of all pages of the collection, in page order
AllItems ==
  LET cat[k \in 0..Len(pages)] == IF k = 0 THEN <<>> ELSE cat[k - 1] \o pages[k].Items
  IN  cat[Len(pages)]

\* C8 as claimed: when a page fetch of getUsers, getApplications, getTopics or
\* getSubscriptions fails, the callback gets that error and none of the items of
\* the pages fetched before.
C8_Original_NoPartialResult ==
  \A i \in Idx :
    (IsCb(i, Solo) /\ isError(trace[i].err)) =>
      /\ i > 1 /\ IsListErr(i - 1, Solo) /\ trace[i].err = trace[i - 1].err
      /\ trace[i].res.items = <<>>

\* C9 as claimed: when no listing call fails and every page but the last carries
\* a cursor, a fetcher requests every page exactly once and hands its callback,
\* without error, the concatenation of the pages' items in page order.
C9_Original_FetchAllConcatenates ==
  LET listErr(j) == IsListErr(j, Solo)
  IN  Count(listErr) = 0 =>
        /\ \A i, j \in Idx :
             (IsListReq(i, Solo) /\ IsListReq(j, Solo) /\ i # j) =>
               trace[i].params.NextToken # trace[j].params.NextToken
        /\ \A i \in Idx :
             IsCb(i, Solo) =>
               /\ ~isError(trace[i].err)
               /\ trace[i].res = ArrayRes(AllItems)
               /\ Cardinality(ListRequests(Solo)) = Len(pages)

C12_SendsBetweenStartAndEnd ==
  \A i \in Idx :
    (\/ IsPubReq(i, Solo)
     \/ IsPubRet(i, Solo)
     \/ IsEmit(i, Solo, SENT_MESSAGE)
     \/ IsEmit(i, Solo, FAILED_SEND)) =>
      LET start(j) == IsEmit(j, Solo, BROADCAST_START)
          end(j) == IsEmit(j, Solo, BROADCAST_END)
      IN  /\ Before(i, start) = 1
          /\ Before(i, end) = 0
          /\ \A j \in Idx : end(j) => i < j

\* C12 witness: a broadcast over two pages has ended, one message was sent and
\* one send failed, broadcastEnd has been emitted.
C12_Witness_SentAndFailedThenEnd ==
  LET sent(j) == IsEmit(j, Solo, SENT_MESSAGE)
      failed(j) == IsEmit(j, Solo, FAILED_SEND)
      end(j) == IsEmit(j, Solo, BROADCAST_END)
      listed(j) == IsListOk(j, Solo)
  IN  /\ Completed(Solo)
      /\ Count(sent) = 1
      /\ Count(failed) = 1
      /\ Count(listed) = 2
      /\ Count(end) = 1

\* C13 as claimed: a page whose NextToken is the empty string ends the listing:
\* no listing request follows it and the invocation completes with its callback.
C13_Original_EmptyTokenExhausts ==
  \A i \in Idx :
    IsListOk(i, Solo) /\ trace[i].data.NextToken = "" =>
      /\ \A j \in (i + 1)..Len(trace) : ~IsListReq(j, Solo)
      /\ \E j \in (i + 1)..Len(trace) : IsCb(j, Solo)

\* C14: publishToTopic with a message whose `default` key is missing, empty or
\* not a string calls back with the error 'Argument "message" must be in SNS
\* multi-platform publishing format.' and does nothing else: no publish request,
\* no publishedMessage, no publishFailed.
C14_MalformedTopicMessageRejected ==
  (/\ op[Solo] = "publishToTopic"
   /\ ~args[Solo].message.isNull
   /\ \/ args[Solo].message.default = DefaultMissing
      \/ args[Solo].message.default = DefaultEmpty
      \/ args[Solo].message.default.type # "string") =>
    /\ pc[Solo] = "done"
    /\ trace = <<Cb(Solo, MessageFormatError, UndefRes)>>

\* C14 witness: publishToTopic was called with a `default` that is a non-zero
\* number and has called back with the format error.
C14_Witness_NumberDefaultRejected ==
  /\ op[Solo] = "publishToTopic"
  /\ ~args[Solo].message.isNull
  /\ args[Solo].message.default = DefaultKey("number", TRUE)
  /\ Len(trace) = 1
  /\ IsCb(1, Solo)
  /\ trace[1].err = MessageFormatError

\* C15 as claimed: a sendMessage call on an instance of a supported platform
\* makes exactly one publish call for its endpointArn, then emits exactly one of
\* messageSent(endpointArn, messageId) and sendFailed(endpointArn, err), then
\* calls back once with (err, messageId), null for messageId on failure.
C15_Original_OnePublishOneEventOneCallback ==
  op[Solo] = "sendMessage" =>
    /\ pc[Solo] \in {"wait", "done"}
    /\ Len(trace) \in {1, 4}
    /\ IsPubReq(1, Solo)
    /\ trace[1].params.TargetArn = args[Solo].endpointArn
    /\ Len(trace) = 4 =>
         /\ IsPubRet(2, Solo)
         /\ IF isError(trace[2].err)
              THEN /\ trace[3] = Emit(Solo, FAILED_SEND, args[Solo].endpointArn, trace[2].err)
                   /\ trace[4] = Cb(Solo, trace[2].err, NullRes)
            ELSE /\ trace[3] = Emit(Solo, SENT_MESSAGE, args[Solo].endpointArn, trace[2].data.MessageId)
                 /\ trace[4] = Cb(Solo, trace[2].err, StringRes(trace[2].data.MessageId))

\* C16 as claimed: on an instance of any platform the constructor accepts,
\* sendMessage never throws 'Unsupported platform'.
C16_Original_NoUnsupportedPlatformThrow ==
  (op[Solo] = "sendMessage" /\ deviceSupported(platform)) => pc[Solo] # "thrown"

\* C17: an addUser call whose createPlatformEndpoint has returned has emitted
\* exactly one event, userAdded(endpointArn, deviceId) on success and
\* addUserFailed(deviceId, err) on failure, and after it has called back once
\* with (err, endpointArn), null for endpointArn on failure.
C17_AddUserOneEventThenCallback ==
  op[Solo] = "addUser" =>
    /\ Len(trace) \in {1, 4}
    /\ trace[1].t = "req" /\ trace[1].name = "createPlatformEndpoint"
    /\ (Len(trace) = 4) = (pc[Solo] = "done")
    /\ Len(trace) = 4 =>
         /\ trace[2].t = "ret" /\ trace[2].name = "createPlatformEndpoint"
         /\ IF isError(trace[2].err)
              THEN /\ trace[3] = Emit(Solo, ADD_USER_FAILED, args[Solo].deviceId, trace[2].err)
                   /\ trace[4] = Cb(Solo, trace[2].err, NullRes)
            ELSE /\ trace[3] = Emit(Solo, ADDED_USER, trace[2].data.EndpointArn, args[Solo].deviceId)
                 /\ trace[4] = Cb(Solo, trace[2].err, StringRes(trace[2].data.EndpointArn))

\* C17 witness: createPlatformEndpoint failed, addUserFailed was emitted and the
\* callback got the error.
C17_Witness_AddUserFailed ==
  /\ op[Solo] = "addUser"
  /\ Len(trace) = 4
  /\ IsEmit(3, Solo, ADD_USER_FAILED)
  /\ IsCb(4, Solo)
  /\ isError(trace[4].err)

\* C18 as claimed: addUser(deviceToken, callback) sends a createPlatformEndpoint
\* request without a CustomUserData field; CustomUserData is sent only when the
\* caller passed data, and then it is that data.
C18_Original_NoDataNoCustomUserData ==
  op[Solo] = "addUser" =>
    /\ args[Solo].argc = 2 => trace[1].params.CustomUserData = undefined
    /\ trace[1].params.CustomUserData # undefined =>
         /\ args[Solo].argc = 3
         /\ trace[1].params.CustomUserData = args[Solo].data

\* C19: a deleteUser call whose deleteEndpoint has returned has emitted
\* userDeleted(endpointArn) once if the call succeeded and nothing if it failed,
\* and after that has called back once with the backend's error or none.
C19_UserDeletedIffSucceeded ==
  op[Solo] = "deleteUser" =>
    /\ trace[1] = Req(Solo, "deleteEndpoint", [EndpointArn |-> args[Solo].endpointArn])
    /\ (pc[Solo] = "done") = (Len(trace) > 1)
    /\ Len(trace) > 1 =>
         /\ trace[2].t = "ret" /\ trace[2].name = "deleteEndpoint"
         /\ After(2) = IF isError(trace[2].err)
                         THEN <<Cb(Solo, trace[2].err, UndefRes)>>
                       ELSE <<Emit(Solo, DELETED_USER, args[Solo].endpointArn, undefined),
                              Cb(Solo, trace[2].err, UndefRes)>>

\* C19 witness: deleteEndpoint failed and the callback got the error, with no
\* event in between.
C19_Witness_DeleteFailedNoEvent ==
  /\ op[Solo] = "deleteUser"
  /\ Len(trace) = 3
  /\ isError(trace[2].err)
  /\ IsCb(3, Solo)
  /\ trace[3].err = trace[2].err

\* what a setAttributes call does once it got past its checks: one request and,
\* once that returned, one event and the callback with the caller's object
SetAttributesProceeds ==
  /\ trace[1].t = "req" /\ trace[1].name = "setEndpointAttributes"
  /\ trace[1].params.EndpointArn = args[Solo].endpointArn
  /\ trace[1].params.Attributes.ref = args[Solo].given.ref
  /\ Len(trace) \in {1, 4}
  /\ (Len(trace) = 4) = (pc[Solo] = "done")
  /\ Len(trace) = 4 =>
       /\ trace[2].t = "ret" /\ trace[2].name = "setEndpointAttributes"
       /\ trace[3].t = "emit"
       /\ trace[3].a = args[Solo].endpointArn
       /\ IF isError(trace[2].err)
            THEN /\ trace[3].name = ATTRIBUTES_UPDATE_FAILED
                 /\ trace[3].b = trace[2].err
          ELSE /\ trace[3].name = ATTRIBUTES_UPDATED
               /\ trace[3].b.ref = args[Solo].given.ref
       /\ IsCb(4, Solo)
       /\ trace[4].err = trace[2].err
       /\ trace[4].res.is = "object"
       /\ trace[4].res.obj.ref = args[Solo].given.ref

\* what a setAttributes call does when it rejects its argument: the callback
\* with an error and null, no request, no event
SetAttributesRejects ==
  /\ pc[Solo] = "done"
  /\ Len(trace) = 1
  /\ IsCb(1, Solo)
  /\ isError(trace[1].err)
  /\ trace[1].res = NullRes

C21_GetUserResult ==
  (op[Solo] = "getUser" /\ pc[Solo] = "done") =>
    /\ Len(trace) = 3
    /\ trace[1] = Req(Solo, "getEndpointAttributes", [EndpointArn |-> args[Solo].endpointArn])
    /\ trace[2].t = "ret" /\ trace[2].name = "getEndpointAttributes"
    /\ IsCb(3, Solo)
    /\ IF isError(trace[2].err)
         THEN /\ trace[3].err = trace[2].err
              /\ trace[3].res = NullRes
       ELSE /\ ~isError(trace[3].err)
            /\ trace[3].res.is = "object"
            /\ trace[3].res.obj.ref = trace[2].data.ref
            /\ trace[3].res.obj.Attributes = trace[2].data.Attributes
            /\ trace[3].res.obj.EndpointArn = args[Solo].endpointArn

\* C21 witness: getEndpointAttributes succeeded and the callback got the object
\* with the EndpointArn in it.
C21_Witness_GotUser ==
  /\ op[Solo] = "getUser"
  /\ Len(trace) = 3
  /\ ~isError(trace[2].err)
  /\ IsCb(3, Solo)
  /\ trace[3].res.is = "object"
  /\ trace[3].res.obj.EndpointArn \in EndpointArns

TopicOps == {"createTopic", "deleteTopic", "subscribe", "unsubscribe", "publishToTopic"}

SuccessEvent(o) ==
  CASE o = "createTopic" -> TOPIC_CREATED
    [] o = "deleteTopic" -> TOPIC_DELETED
    [] o = "subscribe" -> SUBSCRIBED
    [] o = "unsubscribe" -> UNSUBSCRIBED
    [] o = "publishToTopic" -> PUBLISHED_MESSAGE

FailureEvent(o) ==
  CASE o = "createTopic" -> CREATE_TOPIC_FAILED
    [] o = "deleteTopic" -> DELETE_TOPIC_FAILED
    [] o = "subscribe" -> SUBSCRIBE_FAILED
    [] o = "unsubscribe" -> UNSUBSCRIBE_FAILED
    [] o = "publishToTopic" -> PUBLISH_FAILED

\* C29 as claimed: a createTopic, deleteTopic, subscribe, unsubscribe or
\* publishToTopic call whose backend request has returned has emitted exactly
\* one event and then called back once: the success event when the callback got
\* no error, the failure event when it got one.
C29_Original_OneEventPerOutcome ==
  (op[Solo] \in TopicOps /\ Len(trace) >= 2) =>
    /\ trace[2].t = "ret"
    /\ Len(trace) = 4
    /\ trace[3].t = "emit"
    /\ IsCb(4, Solo)
    /\ trace[3].name = IF isError(trace[4].err) THEN FailureEvent(op[Solo])
                       ELSE SuccessEvent(op[Solo])

\* the conversion that sendMessage applies on this instance, for the platforms
\* it selects a converter for
Converted(m) ==
  IF platform = "IOS" THEN convertToApnsFormat(sandbox, m) ELSE convertToGcmFormat(platform, m)

\* C28 as claimed: when the converter reports an error for the message (it is
\* neither a string nor a non-null object), sendMessage makes no publish call,
\* emits no event and calls back with the conversion error.
C28_Original_MalformedMessageRejected ==
  (/\ op[Solo] = "sendMessage"
   /\ platform \in {"ANDROID", "IOS", "KINDLE_FIRE"}
   /\ args[Solo].message.type \notin {"string", "object"}) =>
    /\ isError(Converted(args[Solo].message).err)
    /\ pc[Solo] = "done"
    /\ trace = <<Cb(Solo, Converted(args[Solo].message).err, NullRes)>>

LastListRet(i, c) ==
  CHOOSE r \in 1..(i - 1) : IsListRet(r, c) /\ \A k \in (r + 1)..(i - 1) : ~IsListRet(k, c)

\* C23 as claimed: the first listing request of an invocation carries no cursor;
\* every later one follows a page that carried a cursor and carries exactly that
\* cursor.
C23_Original_CursorThreadedUnchanged ==
  \A i \in Idx :
    IsListReq(i, Solo) =>
      IF \A j \in 1..(i - 1) : ~IsListReq(j, Solo)
        THEN trace[i].params.NextToken = undefined
      ELSE /\ \E r \in 1..(i - 1) : IsListRet(r, Solo)
           /\ IsListOk(LastListRet(i, Solo), Solo)
           /\ trace[i].params.NextToken # undefined
           /\ trace[i].params.NextToken = trace[LastListRet(i, Solo)].data.NextToken

\* C30: within one getSubscriptions call every page request goes to the same
\* operation with the same scope: listSubscriptionsByTopic with the given
\* topicArn when one was given, listSubscriptions without a TopicArn when the
\* call had only a callback.
C30_SubscriptionScopeFixed ==
  op[Solo] = "getSubscriptions" =>
    \A i \in Idx :
      IsListReq(i, Solo) =>
        IF args[Solo].topicArn = undefined
          THEN /\ trace[i].name = "listSubscriptions"
               /\ "TopicArn" \notin DOMAIN trace[i].params
        ELSE /\ trace[i].name = "listSubscriptionsByTopic"
             /\ "TopicArn" \in DOMAIN trace[i].params
             /\ trace[i].params.TopicArn = args[Solo].topicArn

\* C30 witness: a getSubscriptions call for a topic has requested a first and a
\* continuation page.
C30_Witness_ByTopicTwoPages ==
  LET req(i) == IsListReq(i, Solo)
  IN  /\ op[Solo] = "getSubscriptions"
      /\ args[Solo].topicArn # undefined
      /\ Count(req) >= 2
      /\ \E i \in Idx : req(i) /\ trace[i].params.NextToken # undefined

(* ------------------------- claims: traversal -------------------------- *)

\* the items of the pages c has received so far, in order of arrival
Received(c) ==
  LET cat[i \in 0..Len(trace)] ==
        IF i = 0 THEN <<>>
        ELSE cat[i - 1] \o (IF IsListOk(i, c) THEN trace[i].data.Items ELSE <<>>)
  IN  cat[Len(trace)]

\* the targets of the sends of c that are in flight
InFlight(c) ==
  { a \in {trace[i].params.TargetArn : i \in {j \in Idx : IsPubReq(j, c)}} :
      LET req(j) == IsPubReq(j, c) /\ trace[j].params.TargetArn = a
          ret(j) == IsPubRet(j, c) /\ trace[j].target = a
      IN  Count(req) > Count(ret) }

ItemSet(page) == {page.Items[k] : k \in 1..Len(page.Items)}

\* C24: a page without items but with a cursor does not end a traversal: the
\* next thing the invocation does is to request the page of that cursor; a
\* fetcher that completes without error returns the items of all the pages it
\* received, those after the empty page included, and a broadcast dispatches a
\* send to every item of every page it received.
C24_EmptyPageGoesOn ==
  /\ \A i \in Idx :
       (IsListOk(i, Solo) /\ Len(trace[i].data.Items) = 0 /\ truthy(trace[i].data.NextToken)) =>
         \E j \in {i + 1, i + 2} :
           /\ j <= Len(trace)
           /\ IsListReq(j, Solo)
           /\ trace[j].params.NextToken = trace[i].data.NextToken
           /\ \A k \in (i + 1)..(j - 1) : IsEmit(k, Solo, BROADCAST_START)
  /\ \A i \in Idx :
       (IsCb(i, Solo) /\ ~isError(trace[i].err) /\ op[Solo] # "broadcastMessage") =>
         trace[i].res = ArrayRes(Received(Solo))
  /\ \A i \in Idx :
       (/\ op[Solo] = "broadcastMessage"
        /\ IsListOk(i, Solo)
        /\ sendMessage(Solo, undefined, args[Solo].message).kind = "publish") =>
         \A a \in ItemSet(trace[i].data) :
           \E j \in (i + 1)..Len(trace) : IsPubReq(j, Solo) /\ trace[j].params.TargetArn = a

\* C24 witness: a fetcher received an empty page with a cursor, then a page with
\* an item, and returned that item.
C24_Witness_ItemsAfterEmptyPage ==
  \E i, j, k \in Idx :
    /\ i < j /\ j < k
    /\ IsListOk(i, Solo) /\ Len(trace[i].data.Items) = 0 /\ truthy(trace[i].data.NextToken)
    /\ IsListOk(j, Solo) /\ Len(trace[j].data.Items) > 0
    /\ IsCb(k, Solo) /\ ~isError(trace[k].err)
    /\ trace[k].res.is = "array"
    /\ trace[k].res.items = trace[j].data.Items

\* C26: a broadcast works one page at a time: the sends in flight all target
\* items of the page that arrived last and are no more than that page has items;
\* every send is dispatched on the arrival of its page, before any further
\* listing request.
C26_OnePageAtATime ==
  LET listed == {i \in Idx : IsListOk(i, Solo)}
      last == CHOOSE i \in listed : \A j \in listed : j <= i
  IN  /\ pending[Solo] = InFlight(Solo)
      /\ InFlight(Solo) # {} =>
           /\ listed # {}
           /\ InFlight(Solo) \subseteq ItemSet(trace[last].data)
           /\ InFlightBefore(Len(trace) + 1, Solo) <= Len(trace[last].data.Items)
      /\ \A i \in Idx :
           IsPubReq(i, Solo) =>
             /\ \E r \in 1..(i - 1) : IsListOk(r, Solo)
             /\ trace[i].params.TargetArn \in ItemSet(trace[PageAt(i, Solo)].data)
             /\ \A k \in (PageAt(i, Solo) + 1)..(i - 1) :
                  IsPubReq(k, Solo) \/ IsEmit(k, Solo, BROADCAST_START)

\* C26 witness: the send of page 1 has settled, page 2 has arrived and a send to
\* its item is in flight.
C26_Witness_SecondPageInFlight ==
  LET listed(i) == IsListOk(i, Solo)
      ret(i) == IsPubRet(i, Solo)
  IN  /\ Count(listed) = 2
      /\ Count(ret) = 1
      /\ pending[Solo] # {}

(* ----------------------- claims: fetchers compared -------------------- *)

\* the positions of the entries of the trace that satisfy P, in order
RECURSIVE Positions(_, _)
Positions(P(_), n) ==
  IF n = 0 THEN <<>>
  ELSE IF P(n) THEN Append(Positions(P, n - 1), n) ELSE Positions(P, n - 1)

\* what drove invocation c: its page responses, an error or a page
Responses(c) ==
  LET ret(i) == IsListRet(i, c)
      at == Positions(ret, Len(trace))
  IN  [k \in 1..Len(at) |->
         IF isError(trace[at[k]].err) THEN [failed |-> TRUE, Items |-> <<>>, NextToken |-> undefined]
         ELSE [failed |-> FALSE, Items |-> trace[at[k]].data.Items,
               NextToken |-> trace[at[k]].data.NextToken]]

\* the cursors of the page requests of c
Cursors(c) ==
  LET req(i) == IsListReq(i, c)
      at == Positions(req, Len(trace))
  IN  [k \in 1..Len(at) |-> trace[at[k]].params.NextToken]

\* what the callback of c got: whether an error, whether a result, which items
Outcomes(c) ==
  LET cb(i) == IsCb(i, c)
      at == Positions(cb, Len(trace))
  IN  [k \in 1..Len(at) |->
         [failed |-> isError(trace[at[k]].err),
          result |-> trace[at[k]].res.is = "array",
          items |-> trace[at[k]].res.items]]

\* C25 as claimed: two fetcher invocations driven by the same page responses
\* have issued the same page requests with the same cursors and have handed the
\* same outcome to their callbacks, whichever of the four fetchers they are.
C25_Original_FetchersEquivalent ==
  \A c, d \in Calls :
    (op[c] # "idle" /\ op[d] # "idle" /\ Responses(c) = Responses(d)) =>
      /\ Cursors(c) = Cursors(d)
      /\ Outcomes(c) = Outcomes(d)

(* ---------------------- claims: overlapping calls --------------------- *)

\* the listing responses of c carried no error
NoListError(c) == \A i \in Idx : ~IsListErr(i, c)

\* every continuation request of c carries the cursor of c's own last page
FollowsOwnCursors(c) ==
  \A i \in Idx :
    (IsListReq(i, c) /\ \E j \in 1..(i - 1) : IsListReq(j, c)) =>
      /\ \E r \in 1..(i - 1) : IsListOk(r, c)
      /\ IsListOk(LastListRet(i, c), c)
      /\ trace[i].params.NextToken = trace[LastListRet(i, c)].data.NextToken

\* C27 as claimed: when invocations overlap, each getUsers that completes
\* without error returns exactly the complete collection, each broadcastMessage
\* sends to no item twice and, once complete, has sent to every item exactly
\* once, and every invocation follows its own cursors only.
C27_Original_OverlapIsolated ==
  \A c \in Calls :
    /\ op[c] # "idle" => FollowsOwnCursors(c)
    /\ (op[c] = "getUsers" /\ NoListError(c)) =>
         \A i \in Idx : IsCb(i, c) => trace[i].res = ArrayRes(AllItems)
    /\ (op[c] = "broadcastMessage" /\ NoListError(c)) =>
         /\ \A a \in ItemsListed(c) : SendsTo(c, a) <= 1
         /\ Completed(c) => \A a \in ItemSet([Items |-> AllItems]) : SendsTo(c, a) = 1

(* ---------------------- operations one after another ------------------ *)

PlatformApplicationArns == {"arn:app", "arn:app:other"}

\* every earlier invocation has ended: its callback ran or it threw
Settled(c) == \A d \in Calls : d < c => pc[d] \in {"done", "thrown"}

NextSequence ==
  \E c \in Calls :
    \/ \E m \in OverlapMessages : Settled(c) /\ BroadcastMessage(c, m)
    \/ BroadcastListFailed(c)
    \/ BroadcastListed(c)
    \/ PublishSucceeded(c)
    \/ PublishFailed(c)
    \/ Settled(c) /\ GetUsers(c)
    \/ Settled(c) /\ GetApplications(c)
    \/ Settled(c) /\ GetTopics(c)
    \/ \E topicArn \in TopicArns : Settled(c) /\ GetSubscriptions(c, topicArn)
    \/ UsersListFailed(c)
    \/ UsersListed(c)
    \/ TopicsListFailed(c)
    \/ TopicsListed(c)
    \/ \E deviceId \in DeviceIds, data \in UserData : Settled(c) /\ AddUser(c, deviceId, 3, data)
    \/ \E deviceId \in DeviceIds : Settled(c) /\ AddUser(c, deviceId, 2, undefined)
    \/ CreatePlatformEndpointReturned(c)
    \/ \E endpointArn \in EndpointArns : Settled(c) /\ DeleteUser(c, endpointArn)
    \/ DeleteEndpointReturned(c)
    \/ \E endpointArn \in EndpointArns, attributes \in AttributeArgs :
         Settled(c) /\ SetAttributes(c, endpointArn, attributes)
    \/ SetEndpointAttributesReturned(c)
    \/ \E message \in TopicMessages : Settled(c) /\ PublishToTopic(c, TopicArn, message)
    \/ TopicPublishReturned(c)
    \/ \E endpointArn \in EndpointArns, m \in OverlapMessages : Settled(c) /\ SendMessage(c, endpointArn, m)
    \/ SendMessageReturned(c)
    \/ \E endpointArn \in EndpointArns : Settled(c) /\ GetUser(c, endpointArn)
    \/ GetEndpointAttributesReturned(c)
    \/ \E name \in TopicNames : Settled(c) /\ CreateTopic(c, name)
    \/ CreateTopicReturned(c)
    \/ Settled(c) /\ DeleteTopic(c, TopicArn)
    \/ DeleteTopicReturned(c)
    \/ \E endpointArn \in EndpointArns : Settled(c) /\ Subscribe(c, endpointArn, TopicArn)
    \/ SubscribeReturned(c)
    \/ \E subscriptionArn \in SubscriptionArns : Settled(c) /\ Unsubscribe(c, subscriptionArn)
    \/ UnsubscribeReturned(c)

\* an instance for one platform, constructed with either ARN
InitConfigured == Constructed(PlatformApplicationArns) /\ platform = "ANDROID"

\* the methods of one instance called one after another, each once the one
\* before it has ended
SpecSequence == InitConfigured /\ [][NextSequence]_vars

IsUsersListReq(i) ==
  trace[i].t = "req" /\ trace[i].name = "listEndpointsByPlatformApplication"

\* C31: no step of any operation, successful or failed, changes platform,
\* sandbox or platformApplicationArn; after every step getPlatformApplicationArn()
\* returns the value the instance had before it (the constructor's, from the
\* first step on), and every listing request that getUsers and broadcastMessage
\* have made carries that value as PlatformApplicationArn.
C31_ConfigurationUnchanged ==
  [][ /\ inst' = inst
      /\ getPlatformApplicationArn' = platformApplicationArn
      /\ \A i \in 1..Len(trace') :
           (trace'[i].t = "req" /\ trace'[i].name = "listEndpointsByPlatformApplication") =>
             trace'[i].params.PlatformApplicationArn = platformApplicationArn ]_vars

\* C31 witness: on an instance constructed with the other ARN, a broadcast with
\* a failed send has ended and a getUsers after it has ended too, each having
\* made a listing request
C31_Witness_TwoOperationsDone ==
  /\ platformApplicationArn = "arn:app:other"
  /\ op[1] = "broadcastMessage" /\ pc[1] = "done"
  /\ op[2] = "getUsers" /\ pc[2] = "done"
  /\ \E i, j, k \in Idx :
       /\ IsUsersListReq(i) /\ trace[i].c = 1
       /\ IsEmit(j, 1, FAILED_SEND) /\ i < j
       /\ IsUsersListReq(k) /\ trace[k].c = 2 /\ j < k


====
